---------------------------- MODULE Spec2Model ----------------------------
(***************************************************************************)
(* A model of the comparison-and-classification engine of                  *)
(* src/generic_bug_detector.py (class GenericBugDetector), and of the      *)
(* comparison, test loops and driver handling of ScreenshotBugDetector     *)
(* (src/screenshot_bug_detector.py) and SudokuTestAutomation               *)
(* (src/sudoku_test_automation.py).                                        *)
(*                                                                         *)
(* Numbers.  A similarity score is an integer number of hundredths         *)
(* (0.95 is 95); areas and pixel counts are integers.  A mean is kept as   *)
(* the exact fraction [num, den] that np.mean divides.                     *)
(*                                                                         *)
(* Libraries.  What os.path.exists, cv2.imread, skimage's ssim,            *)
(* cv2.findContours and cv2.Canny answer for a pair of files is part of    *)
(* the input: a "scene" record carries those answers, and the code that    *)
(* consumes them is modelled statement by statement.                       *)
(***************************************************************************)
EXTENDS Integers, Sequences, FiniteSets, TLC

VARIABLES
    config,         \* self.config
    results,        \* self.results
    pc,             \* where the caller of the detector is
    image_pairs,    \* compare_batch: its image_pairs argument
    save_diffs,     \* compare_batch: its save_diffs argument
    batch_results,  \* compare_batch: its local list `results`
    pair_index,     \* compare_batch: how many pairs its for loop has taken
    report,         \* the statistics of the last generated Excel report
    call,           \* the last call of a pure method: its inputs and its value
    test_results,   \* run_comprehensive_test / run_all_tests: the local test_results
    viewport_index, \* run_comprehensive_test: how many viewports its loop has taken
    report_data,    \* generate_bug_report: its report_data
    driver,         \* SudokuTestAutomation.driver
    detector_driver,\* ScreenshotBugDetector.driver
    quits,          \* per WebDriver object created, the number of its quit() calls
    test_index      \* run_all_tests: how many test functions its loop has taken

vars == <<config, results, pc, image_pairs, save_diffs, batch_results, pair_index,
          report, call, test_results, viewport_index, report_data, driver,
          detector_driver, quits, test_index>>

(* The state of GenericBugDetector and its callers, and the state of       *)
(* ScreenshotBugDetector and SudokuTestAutomation.                         *)
coreVars == <<config, results, image_pairs, save_diffs, batch_results, pair_index,
              report, call>>

uiVars == <<test_results, viewport_index, report_data, driver, detector_driver, quits,
            test_index>>

None == "None"

(* self.driver = None (both classes); a WebDriver object is a positive     *)
(* number, the order in which webdriver.Chrome() made it.                  *)
NoDriver == 0

NoReportData == [total_tests |-> 0]

(* No ScreenshotBugDetector or SudokuTestAutomation has done anything. *)
NoUi ==
    /\ test_results = <<>>
    /\ viewport_index = 0
    /\ report_data = NoReportData
    /\ driver = NoDriver
    /\ detector_driver = NoDriver
    /\ quits = <<>>
    /\ test_index = 0

-----------------------------------------------------------------------------
(* Bounds of the model *)

MaxTiers == 3       \* tiers of a configured severity table
MaxContours == 6    \* contours handed to _analyze_differences
MaxPairs == 2       \* pairs of one compare_batch call
MaxResults == 2     \* comparisons made on one detector instance
MaxRawContours == 2 \* contours cv2.findContours finds in one compared scene

-----------------------------------------------------------------------------
(* Configuration: _default_config.  severity_levels is a dict; iterating   *)
(* its items() yields the (label, cutoff) pairs in insertion order, so it  *)
(* is the sequence of those pairs.                                         *)

DefaultSeverityLevels ==
    << <<"critical", 70>>, <<"high", 80>>, <<"medium", 90>>, <<"low", 95>> >>

DefaultConfig ==
    [ threshold |-> 95,
      min_contour_area |-> 100,
      output_dir |-> "bug_reports",
      include_difference_images |-> TRUE,
      severity_levels |-> DefaultSeverityLevels ]

(* __init__: self.config = config or self._default_config().  A missing    *)
(* or empty configuration (None, {}) is NoConfig; any other dict is taken  *)
(* as it is, with the keys it has.                                         *)
NoConfig == [unset |-> TRUE]

(* A constructor that fills the keys the given configuration leaves out. *)
ConstructMerged(given) ==
    IF given = NoConfig THEN DefaultConfig
    ELSE [ k \in DOMAIN DefaultConfig |->
             IF k \in DOMAIN given THEN given[k] ELSE DefaultConfig[k] ]

Construct(given) == IF given = NoConfig THEN DefaultConfig ELSE given

-----------------------------------------------------------------------------
(* _determine_severity: the first pair of the table, in iteration order,   *)
(* whose cutoff the similarity is strictly below; 'none' when there is     *)
(* none.                                                                   *)

RECURSIVE FirstBelow(_, _, _)
FirstBelow(levels, i, similarity) ==
    IF i > Len(levels) THEN "none"
    ELSE IF similarity < levels[i][2] THEN levels[i][1]
    ELSE FirstBelow(levels, i + 1, similarity)

(* The same with <= for <: a cutoff that takes the score equal to it. *)
RECURSIVE FirstBelowOrEqual(_, _, _)
FirstBelowOrEqual(levels, i, similarity) ==
    IF i > Len(levels) THEN "none"
    ELSE IF similarity <= levels[i][2] THEN levels[i][1]
    ELSE FirstBelowOrEqual(levels, i + 1, similarity)

(* The last tier of the table whose cutoff the score is below. *)
RECURSIVE LastBelow(_, _, _)
LastBelow(levels, i, similarity) ==
    IF i < 1 THEN "none"
    ELSE IF similarity < levels[i][2] THEN levels[i][1]
    ELSE LastBelow(levels, i - 1, similarity)

DetermineSeverityLastMatch(cfg, similarity) ==
    LastBelow(cfg.severity_levels, Len(cfg.severity_levels), similarity)

DetermineSeverityInclusive(cfg, similarity) ==
    FirstBelowOrEqual(cfg.severity_levels, 1, similarity)

DetermineSeverity(cfg, similarity) ==
    FirstBelow(cfg.severity_levels, 1, similarity)


-----------------------------------------------------------------------------
(* Results.  A result is a dict; an error result has only the key 'error'. *)
(* A message built with an f-string is the tuple of its parts.             *)

IsError(result) == "error" \in DOMAIN result

ErrorResult(parts) == [error |-> parts]

-----------------------------------------------------------------------------
(* _analyze_differences.  A contour is what cv2.contourArea and            *)
(* cv2.boundingRect answer for it: [area, box |-> <<x, y, w, h>>].  The    *)
(* two images are what _detect_text_issues reads of them: the size of the  *)
(* edge map and the number of pixels at which the two edge maps differ.    *)

Region(contour) ==
    [ area |-> contour.area,
      bounding_box |-> contour.box,
      center |-> << contour.box[1] + (contour.box[3] \div 2),
                    contour.box[2] + (contour.box[4] \div 2) >> ]

RECURSIVE Regions(_)
Regions(contours) ==
    IF contours = <<>> THEN <<>>
    ELSE <<Region(Head(contours))>> \o Regions(Tail(contours))

(* list.sort(key=area, reverse=True): descending and stable, so a region   *)
(* goes behind every region whose area is at least its own.                *)
(* An insertion that puts a region in front of the regions of its own area. *)
RECURSIVE InsertByAreaUnstable(_, _)
InsertByAreaUnstable(sorted, region) ==
    IF sorted = <<>> THEN <<region>>
    ELSE IF Head(sorted).area > region.area
         THEN <<Head(sorted)>> \o InsertByAreaUnstable(Tail(sorted), region)
         ELSE <<region>> \o sorted

RECURSIVE InsertByArea(_, _)
InsertByArea(sorted, region) ==
    IF sorted = <<>> THEN <<region>>
    ELSE IF Head(sorted).area >= region.area
         THEN <<Head(sorted)>> \o InsertByArea(Tail(sorted), region)
         ELSE <<region>> \o sorted

RECURSIVE SortByAreaDescending(_)
SortByAreaDescending(regions) ==
    IF regions = <<>> THEN <<>>
    ELSE InsertByArea(SortByAreaDescending(SubSeq(regions, 1, Len(regions) - 1)),
                      regions[Len(regions)])

(* lines 151-167: diff_regions as the rules see it, built in discovery     *)
(* order and then sorted.                                                  *)
DiffRegions(contours) == SortByAreaDescending(Regions(contours))

(* edge_diff_percentage = (np.sum(edge_diff > 0) / edge_diff.size) * 100,  *)
(* compared with 5 without rounding.                                       *)
DetectTextIssues(imgs) == imgs.edge_nonzero * 100 > 5 * imgs.size

(* The layout rule firing at exactly 10000 pixels too. *)
LayoutShiftBugsInclusive(cfg, diff_regions, similarity) ==
    IF diff_regions[1].area >= 10000
    THEN << [ type |-> "layout_shift",
              severity |-> DetermineSeverity(cfg, similarity),
              description |-> << "Major layout shift detected. Largest difference area: ",
                                 diff_regions[1].area, " pixels" >>,
              area |-> diff_regions[1].area,
              location |-> diff_regions[1].center ] >>
    ELSE <<>>

LayoutShiftBugs(cfg, diff_regions, similarity) ==
    IF diff_regions[1].area > 10000
    THEN << [ type |-> "layout_shift",
              severity |-> DetermineSeverity(cfg, similarity),
              description |-> << "Major layout shift detected. Largest difference area: ",
                                 diff_regions[1].area, " pixels" >>,
              area |-> diff_regions[1].area,
              location |-> diff_regions[1].center ] >>
    ELSE <<>>

(* The region-count rule firing at exactly 5 regions too. *)
MultipleDifferencesBugsInclusive(cfg, diff_regions, similarity) ==
    IF Len(diff_regions) >= 5
    THEN << [ type |-> "multiple_differences",
              severity |-> DetermineSeverity(cfg, similarity),
              description |-> << "Multiple visual differences detected (",
                                 Len(diff_regions), " regions)" >>,
              region_count |-> Len(diff_regions) ] >>
    ELSE <<>>

MultipleDifferencesBugs(cfg, diff_regions, similarity) ==
    IF Len(diff_regions) > 5
    THEN << [ type |-> "multiple_differences",
              severity |-> DetermineSeverity(cfg, similarity),
              description |-> << "Multiple visual differences detected (",
                                 Len(diff_regions), " regions)" >>,
              region_count |-> Len(diff_regions) ] >>
    ELSE <<>>

(* A colour rule that stays silent from 0.95 on, the default 'none' tier. *)
ColorContrastBugsBelowNoneTier(diff_regions, similarity) ==
    IF similarity > 80 /\ similarity < 95 /\ Len(diff_regions) < 3
    THEN << [ type |-> "color_contrast_issue",
              severity |-> "low",
              description |-> <<"Minor color or contrast differences detected">>,
              similarity |-> similarity ] >>
    ELSE <<>>

ColorContrastBugs(diff_regions, similarity) ==
    IF similarity > 80 /\ Len(diff_regions) < 3
    THEN << [ type |-> "color_contrast_issue",
              severity |-> "low",
              description |-> <<"Minor color or contrast differences detected">>,
              similarity |-> similarity ] >>
    ELSE <<>>

TextRenderingBugs(imgs) ==
    IF DetectTextIssues(imgs)
    THEN << [ type |-> "text_rendering_issue",
              severity |-> "medium",
              description |-> <<"Text rendering differences detected">> ] >>
    ELSE <<>>

(* The four rules with the text rule first. *)
CategorizeBugsTextFirst(cfg, imgs, diff_regions, similarity) ==
    IF Len(diff_regions) > 0
    THEN TextRenderingBugs(imgs)
         \o LayoutShiftBugs(cfg, diff_regions, similarity)
         \o MultipleDifferencesBugs(cfg, diff_regions, similarity)
         \o ColorContrastBugs(diff_regions, similarity)
    ELSE <<>>

CategorizeBugs(cfg, imgs, diff_regions, similarity) ==
    IF Len(diff_regions) > 0
    THEN LayoutShiftBugs(cfg, diff_regions, similarity)
         \o MultipleDifferencesBugs(cfg, diff_regions, similarity)
         \o ColorContrastBugs(diff_regions, similarity)
         \o TextRenderingBugs(imgs)
    ELSE <<>>

(* _analyze_differences without its threshold gate. *)
AnalyzeDifferencesUngated(cfg, imgs, contours, similarity) ==
    CategorizeBugs(cfg, imgs, SortByAreaDescending(Regions(contours)), similarity)

AnalyzeDifferences(cfg, imgs, contours, similarity) ==
    IF similarity < cfg.threshold
    THEN CategorizeBugs(cfg, imgs, DiffRegions(contours), similarity)
    ELSE <<>>

HasBug(bugs, type) == \E i \in 1..Len(bugs) : bugs[i].type = type

-----------------------------------------------------------------------------
(* compare_images.  A scene is one pair of paths together with what the    *)
(* libraries answer for it:                                                *)
(*   ref_exists, cur_exists   os.path.exists of each path                  *)
(*   ref_shape, cur_shape     <<height, width>> of what cv2.imread loads,  *)
(*                            NoImage when it returns None                 *)
(*   ssim                     structural_similarity of the grey images     *)
(*   diff_nonzero             np.sum(diff > 0)                             *)
(*   contours                 cv2.findContours of the thresholded diff     *)
(*   edge_nonzero             np.sum(edge_diff > 0) of the Canny edge maps *)

(* structural_similarity raises ValueError when its 7x7 window does not    *)
(* fit into the image; the except clause turns that into an error result.  *)
NoImage == <<>>

SsimRaises(shape) == shape[1] < 7 \/ shape[2] < 7

(* A filter that keeps a contour of exactly min_contour_area too. *)
SignificantContoursInclusive(cfg, contours) ==
    SelectSeq(contours, LAMBDA c : c.area >= cfg.min_contour_area)

(* A filter that keeps the contours below min_contour_area. *)
SignificantContoursBelow(cfg, contours) ==
    SelectSeq(contours, LAMBDA c : c.area < cfg.min_contour_area)

SignificantContours(cfg, contours) ==
    SelectSeq(contours, LAMBDA c : c.area > cfg.min_contour_area)

(* diff.size and edge_diff.size: the current image has the reference's     *)
(* shape once it is resized.                                               *)
ImageSize(shape) == shape[1] * shape[2]

TestName(test_name) ==
    IF test_name = None THEN "test_<timestamp>" ELSE test_name

(* bugs_found taken from the severity tier instead of the bug list. *)
BugsFoundBySeverity(bugs, severity) == severity # "none"

BugsFound(bugs, severity) == Len(bugs) > 0

(* lines 81-83: `if a.shape != b.shape: b = cv2.resize(b, a's size)`; the  *)
(* shape the second image has afterwards.                                  *)
ResizeToMatch(shape_a, shape_b) == IF shape_a # shape_b THEN shape_a ELSE shape_b

(* The shapes compare_images works on: the current image is the one        *)
(* resized (lines 82-83).                                                  *)
CompareImagesWorkingShapes(scene) ==
    [ reference |-> scene.ref_shape,
      current |-> ResizeToMatch(scene.ref_shape, scene.cur_shape) ]

(* An overall severity of 'none' whenever no finding was made. *)
OverallSeverityOfFindings(cfg, similarity, bugs) ==
    IF bugs = <<>> THEN "none" ELSE DetermineSeverity(cfg, similarity)

(* lines 107-108: the severity of the result comes from the similarity     *)
(* alone; the findings are made after it and do not enter it.              *)
OverallSeverity(cfg, similarity, bugs) == DetermineSeverity(cfg, similarity)

(* The result dict of lines 113-131, without its timestamp.  The           *)
(* visualization is a copy of the reference image with the retained        *)
(* contours drawn on it.  difference_percentage is a whole number for the  *)
(* pixel counts the scenes use.                                            *)
ComparisonResult(cfg, scene, test_name) ==
    LET similarity == scene.ssim
        size == ImageSize(scene.ref_shape)
        significant_contours == SignificantContours(cfg, scene.contours)
        bugs == AnalyzeDifferences(cfg,
                    [size |-> size, edge_nonzero |-> scene.edge_nonzero],
                    significant_contours, similarity)
        severity == OverallSeverity(cfg, similarity, bugs)
    IN  [ test_name |-> TestName(test_name),
          reference_path |-> scene.reference_path,
          current_path |-> scene.current_path,
          similarity |-> similarity,
          difference_percentage |-> (scene.diff_nonzero * 100) \div size,
          contours_count |-> Len(significant_contours),
          total_contours |-> Len(scene.contours),
          severity |-> severity,
          bugs_found |-> BugsFound(bugs, severity),
          bugs |-> bugs,
          image_dimensions |->
              [ reference |-> [width |-> scene.ref_shape[2], height |-> scene.ref_shape[1]],
                current |-> [width |-> scene.cur_shape[2], height |-> scene.cur_shape[1]] ],
          difference_visualization |->
              [image |-> scene.reference_path, outlines |-> significant_contours],
          contours |-> significant_contours ]

(* The keys of self.config that lines 101, 108 (140) and 111 (150) read    *)
(* and the configuration lacks; line 101 reads min_contour_area once per   *)
(* raw contour, so not at all when there is none.  The KeyError of the     *)
(* first of them is raised inside the try block and becomes an error       *)
(* result.                                                                 *)
MissingKeys(cfg, scene) ==
    LET read == {"severity_levels", "threshold"}
                \cup (IF scene.contours # <<>> THEN {"min_contour_area"} ELSE {})
    IN  {k \in read : k \notin DOMAIN cfg}

FirstMissingKey(cfg, scene) ==
    IF "min_contour_area" \in MissingKeys(cfg, scene) THEN "'min_contour_area'"
    ELSE IF "severity_levels" \in MissingKeys(cfg, scene) THEN "'severity_levels'"
    ELSE "'threshold'"

(* compare_images testing the current path before the reference path. *)
CompareImagesCurrentFirst(cfg, scene, test_name) ==
    IF ~scene.cur_exists
    THEN ErrorResult(<<"Current image not found: ", scene.current_path>>)
    ELSE IF ~scene.ref_exists
    THEN ErrorResult(<<"Reference image not found: ", scene.reference_path>>)
    ELSE IF scene.ref_shape = NoImage \/ scene.cur_shape = NoImage
    THEN ErrorResult(<<"Could not load one or both images">>)
    ELSE IF SsimRaises(scene.ref_shape)
    THEN ErrorResult(<<"Image comparison failed: ", "win_size exceeds image extent">>)
    ELSE IF MissingKeys(cfg, scene) # {}
    THEN ErrorResult(<<"Image comparison failed: ", FirstMissingKey(cfg, scene)>>)
    ELSE ComparisonResult(cfg, scene, test_name)

CompareImages(cfg, scene, test_name) ==
    IF ~scene.ref_exists
    THEN ErrorResult(<<"Reference image not found: ", scene.reference_path>>)
    ELSE IF ~scene.cur_exists
    THEN ErrorResult(<<"Current image not found: ", scene.current_path>>)
    ELSE IF scene.ref_shape = NoImage \/ scene.cur_shape = NoImage
    THEN ErrorResult(<<"Could not load one or both images">>)
    ELSE IF SsimRaises(scene.ref_shape)
    THEN ErrorResult(<<"Image comparison failed: ", "win_size exceeds image extent">>)
    ELSE IF MissingKeys(cfg, scene) # {}
    THEN ErrorResult(<<"Image comparison failed: ", FirstMissingKey(cfg, scene)>>)
    ELSE ComparisonResult(cfg, scene, test_name)

-----------------------------------------------------------------------------
(* compare_image_pair.  Creating the output directory (Path.mkdir) and     *)
(* writing the image are outside any try block: when the file system       *)
(* refuses, the exception leaves compare_image_pair before the result is   *)
(* stored.  `fs` is the file system's answer: "ok" or "oserror".           *)

FileSystemAnswers == {"ok", "oserror"}

SavesDifferenceImage(cfg, result, save_diff) ==
    ~IsError(result) /\ save_diff /\ cfg.include_difference_images

WithDifferenceImagePath(cfg, result) ==
    [ k \in DOMAIN result \cup {"difference_image_path"} |->
        IF k = "difference_image_path"
        THEN <<cfg.output_dir, "/diff_", result.test_name, "_", "timestamp", ".png">>
        ELSE result[k] ]

(* The value compare_image_pair returns and stores when nothing raises.    *)
CompareImagePairResult(cfg, pair, save_diff) ==
    LET result == CompareImages(cfg, pair.scene, pair.test_name)
    IN  IF SavesDifferenceImage(cfg, result, save_diff)
        THEN WithDifferenceImagePath(cfg, result)
        ELSE result

CompareImagePairRaises(cfg, pair, save_diff, fs) ==
    /\ SavesDifferenceImage(cfg, CompareImages(cfg, pair.scene, pair.test_name), save_diff)
    /\ fs = "oserror"

-----------------------------------------------------------------------------
(* The statistics of generate_excel_report: _create_summary_worksheet and  *)
(* _create_statistics_worksheet.  dict.get(key, default) is Get.           *)

Get(result, key, default) == IF key \in DOMAIN result THEN result[key] ELSE default

RECURSIVE SumOver(_, _, _)
SumOver(rs, key, default) ==
    IF rs = <<>> THEN 0
    ELSE Get(Head(rs), key, default) + SumOver(Tail(rs), key, default)

SeverityLabels == {"critical", "high", "medium", "low", "none"}

(* severity_counts[result.get('severity', 'none')] += 1 for every result *)
SeverityCounts(rs) ==
    [ label \in SeverityLabels |->
        Cardinality({i \in 1..Len(rs) : Get(rs[i], "severity", "none") = label}) ]

(* np.mean of a list: its sum over its length, kept as that fraction *)
Mean(rs, key) == [num |-> SumOver(rs, key, 0), den |-> Len(rs)]

(* A summary that counts a result without bugs_found as a failed test. *)
CreateSummaryWorksheetErrorsFail(rs) ==
    LET total_tests == Len(rs)
        failed_tests == Cardinality({i \in 1..Len(rs) : Get(rs[i], "bugs_found", TRUE)})
    IN  [ total_tests |-> total_tests,
          failed_tests |-> failed_tests,
          passed_tests |-> total_tests - failed_tests,
          severity_counts |-> SeverityCounts(rs),
          avg_similarity |-> Mean(rs, "similarity"),
          avg_diff_percentage |-> Mean(rs, "difference_percentage") ]

CreateSummaryWorksheet(rs) ==
    LET total_tests == Len(rs)
        failed_tests == Cardinality({i \in 1..Len(rs) : Get(rs[i], "bugs_found", FALSE)})
    IN  [ total_tests |-> total_tests,
          failed_tests |-> failed_tests,
          passed_tests |-> total_tests - failed_tests,
          severity_counts |-> SeverityCounts(rs),
          avg_similarity |-> Mean(rs, "similarity"),
          avg_diff_percentage |-> Mean(rs, "difference_percentage") ]

BugTypes == {"layout_shift", "multiple_differences", "color_contrast_issue",
             "text_rendering_issue"}

RECURSIVE CountBugs(_, _)
CountBugs(rs, type) ==
    IF rs = <<>> THEN 0
    ELSE Cardinality({i \in 1..Len(Get(Head(rs), "bugs", <<>>)) :
                         Get(Head(rs), "bugs", <<>>)[i].type = type})
         + CountBugs(Tail(rs), type)

CreateStatisticsWorksheet(rs) ==
    [ total_tests |-> Len(rs),
      severity_counts |-> SeverityCounts(rs),
      bug_types |-> [type \in {t \in BugTypes : CountBugs(rs, t) > 0} |-> CountBugs(rs, type)] ]

-----------------------------------------------------------------------------
(* Inputs *)

Shape400x300 == <<300, 400>>

Scene(ref, cur, ref_exists, cur_exists, ref_shape, cur_shape, ssim, diff, contours, edge) ==
    [ reference_path |-> ref, current_path |-> cur,
      ref_exists |-> ref_exists, cur_exists |-> cur_exists,
      ref_shape |-> ref_shape, cur_shape |-> cur_shape,
      ssim |-> ssim, diff_nonzero |-> diff,
      contours |-> contours, edge_nonzero |-> edge ]

Pair(scene, test_name) == [scene |-> scene, test_name |-> test_name]

(* The image pairs the callers of the detector compare: a missing          *)
(* reference, a missing current image, a file that is no image, images     *)
(* too small for the similarity window, the demo's blue/blue and blue/red  *)
(* 400x300 pairs, a dimmed and larger current image without any region     *)
(* over the activation threshold, a changed 50x50 block, and three short   *)
(* runs of re-rendered text.                                               *)
Fixtures ==
    { Pair(Scene("missing.png", "blue.png", FALSE, TRUE, NoImage, Shape400x300,
                 0, 0, <<>>, 0), "missing_reference"),
      Pair(Scene("blue.png", "missing.png", TRUE, FALSE, Shape400x300, NoImage,
                 0, 0, <<>>, 0), "missing_current"),
      Pair(Scene("blue.png", "notes.txt", TRUE, TRUE, Shape400x300, NoImage,
                 0, 0, <<>>, 0), "not_an_image"),
      Pair(Scene("dot.png", "dot.png", TRUE, TRUE, <<5, 5>>, <<5, 5>>,
                 0, 0, <<>>, 0), "tiny"),
      Pair(Scene("blue.png", "blue.png", TRUE, TRUE, Shape400x300, Shape400x300,
                 100, 0, <<>>, 0), "identical"),
      Pair(Scene("blue.png", "red.png", TRUE, TRUE, Shape400x300, Shape400x300,
                 67, 120000, <<[area |-> 119301, box |-> <<0, 0, 400, 300>>]>>, 0),
           "different"),
      Pair(Scene("blue.png", "dim.png", TRUE, TRUE, Shape400x300, <<600, 800>>,
                 90, 60000, <<>>, 0), None),
      Pair(Scene("blue.png", "block.png", TRUE, TRUE, Shape400x300, Shape400x300,
                 93, 2500, <<[area |-> 2401, box |-> <<100, 100, 50, 50>>]>>, 1200),
           "block"),
      Pair(Scene("blue.png", "text.png", TRUE, TRUE, Shape400x300, Shape400x300,
                 90, 9600, << [area |-> 150, box |-> <<20, 20, 30, 8>>],
                              [area |-> 150, box |-> <<60, 20, 30, 8>>],
                              [area |-> 180, box |-> <<20, 40, 36, 8>>] >>, 7000),
           "text") }

PairSequences(n) == UNION {[1..k -> Fixtures] : k \in 0..n}

-----------------------------------------------------------------------------
(* The detector and its callers: compare_image_pair, compare_batch and     *)
(* generate_excel_report on one GenericBugDetector instance.               *)

NoReport == [results |-> <<>>]

NoCall == [method |-> None]

Ready == pc \in {"idle", "returned", "reported"}

Init ==
    /\ NoUi
    /\ config = DefaultConfig
    /\ results = <<>>
    /\ pc = "idle"
    /\ image_pairs = <<>>
    /\ save_diffs = FALSE
    /\ batch_results = <<>>
    /\ pair_index = 0
    /\ report = NoReport
    /\ call = NoCall

(* A batch list that leaves error results out. *)
BatchAppendIfNoError(batch, result) ==
    IF IsError(result) THEN batch ELSE Append(batch, result)

(* compare_batch line 276: results.append(result) *)
BatchAppend(batch, result) == Append(batch, result)

(* One call of compare_image_pair by a caller other than compare_batch. *)
CompareImagePair ==
    /\ UNCHANGED uiVars
    /\ Ready
    /\ Len(results) < MaxResults
    /\ \E pair \in Fixtures, save_diff \in BOOLEAN, fs \in FileSystemAnswers :
          IF CompareImagePairRaises(config, pair, save_diff, fs)
          THEN /\ pc' = "pair_raised"
               /\ UNCHANGED results
          ELSE /\ pc' = "idle"
               /\ results' = Append(results, CompareImagePairResult(config, pair, save_diff))
    /\ image_pairs' = <<>>
    /\ batch_results' = <<>>
    /\ pair_index' = 0
    /\ save_diffs' = FALSE
    /\ report' = NoReport
    /\ UNCHANGED <<config, call>>

(* compare_batch is entered: results = [] *)
CompareBatchStart ==
    /\ UNCHANGED uiVars
    /\ Ready
    /\ \E pairs \in PairSequences(MaxPairs), save \in BOOLEAN :
          /\ Len(results) + Len(pairs) <= MaxResults
          /\ image_pairs' = pairs
          /\ save_diffs' = save
    /\ batch_results' = <<>>
    /\ pair_index' = 0
    /\ pc' = "batch"
    /\ report' = NoReport
    /\ UNCHANGED <<config, results, call>>

(* One iteration of compare_batch's loop over image_pairs. *)
CompareBatchStep ==
    /\ UNCHANGED uiVars
    /\ pc = "batch"
    /\ pair_index < Len(image_pairs)
    /\ pair_index' = pair_index + 1
    /\ LET pair == image_pairs[pair_index + 1]
       IN  \E fs \in FileSystemAnswers :
              IF CompareImagePairRaises(config, pair, save_diffs, fs)
              THEN /\ pc' = "batch_raised"
                   /\ UNCHANGED <<results, batch_results>>
              ELSE /\ results' = Append(results,
                                    CompareImagePairResult(config, pair, save_diffs))
                   /\ batch_results' = BatchAppend(batch_results,
                                    CompareImagePairResult(config, pair, save_diffs))
                   /\ UNCHANGED pc
    /\ UNCHANGED <<config, image_pairs, save_diffs, report, call>>

(* compare_batch: return results *)
CompareBatchReturn ==
    /\ UNCHANGED uiVars
    /\ pc = "batch"
    /\ pair_index >= Len(image_pairs)
    /\ pc' = "returned"
    /\ UNCHANGED <<config, results, image_pairs, save_diffs, batch_results, pair_index,
                   report, call>>

(* generate_excel_report(results): without the argument it reports on     *)
(* self.results; main() passes the list compare_batch returned.            *)
GenerateExcelReport ==
    /\ UNCHANGED uiVars
    /\ Ready
    /\ \E given \in {"self.results"} \cup (IF pc = "returned" THEN {"returned"} ELSE {}),
          fs \in FileSystemAnswers :
          LET rs == IF given = "self.results" THEN results ELSE batch_results
          IN  IF rs = <<>> \/ fs = "oserror"
              THEN /\ pc' = "report_raised"
                   /\ report' = NoReport
              ELSE /\ pc' = "reported"
                   /\ report' = [ results |-> rs,
                                  summary |-> CreateSummaryWorksheet(rs),
                                  statistics |-> CreateStatisticsWorksheet(rs) ]
    /\ image_pairs' = <<>>
    /\ batch_results' = <<>>
    /\ pair_index' = 0
    /\ save_diffs' = FALSE
    /\ UNCHANGED <<config, results, call>>

Next ==
    \/ CompareImagePair
    \/ CompareBatchStart
    \/ CompareBatchStep
    \/ CompareBatchReturn
    \/ GenerateExcelReport

Spec == Init /\ [][Next]_vars

-----------------------------------------------------------------------------
(* Calls of _determine_severity on detectors built with a configured       *)
(* severity table: any table of at most MaxTiers tiers with distinct       *)
(* labels, in any order, and the default one.                              *)

SimilarityValues == {-5, 0, 50, 69, 70, 71, 79, 80, 81, 89, 90, 91, 94, 95, 96, 100}

TierLabels == {"critical", "high", "medium", "low"}

Cutoffs == {70, 80, 90, 95}

SeverityTables ==
    { t \in UNION {[1..n -> TierLabels \X Cutoffs] : n \in 0..MaxTiers} :
        \A i, j \in 1..Len(t) : i # j => t[i][1] # t[j][1] }

InitSeverity ==
    /\ NoUi
    /\ config \in { [DefaultConfig EXCEPT !.severity_levels = t] :
                      t \in SeverityTables \cup {DefaultSeverityLevels} }
    /\ results = <<>>
    /\ pc = "idle"
    /\ image_pairs = <<>>
    /\ save_diffs = FALSE
    /\ batch_results = <<>>
    /\ pair_index = 0
    /\ report = NoReport
    /\ call = NoCall

CallDetermineSeverity ==
    /\ UNCHANGED uiVars
    /\ pc = "idle"
    /\ \E similarity \in SimilarityValues :
          call' = [ method |-> "_determine_severity",
                    similarity |-> similarity,
                    value |-> DetermineSeverity(config, similarity) ]
    /\ pc' = "called"
    /\ UNCHANGED <<config, results, image_pairs, save_diffs, batch_results, pair_index,
                   report>>

NextSeverity == CallDetermineSeverity

SpecSeverity == InitSeverity /\ [][NextSeverity]_vars

-----------------------------------------------------------------------------
(* Calls of _analyze_differences with any list of at most MaxContours      *)
(* contours, any similarity and any edge divergence, on detectors with     *)
(* the default or a lower classification threshold.                        *)

Thresholds == {90, 95}

ContourShapes ==
    { [area |-> 101, box |-> <<10, 10, 12, 12>>],
      [area |-> 10000, box |-> <<20, 30, 101, 101>>],
      [area |-> 10001, box |-> <<40, 50, 130, 90>>] }

ContourLists == UNION {[1..n -> ContourShapes] : n \in 0..MaxContours}

(* of the 120000 pixels of a 400x300 edge map: none, exactly 5%, just over *)
EdgeCounts == {0, 6000, 6001}

InitClassify ==
    /\ NoUi
    /\ config \in { [DefaultConfig EXCEPT !.threshold = t] : t \in Thresholds }
    /\ results = <<>>
    /\ pc = "idle"
    /\ image_pairs = <<>>
    /\ save_diffs = FALSE
    /\ batch_results = <<>>
    /\ pair_index = 0
    /\ report = NoReport
    /\ call = NoCall

CallAnalyzeDifferences ==
    /\ UNCHANGED uiVars
    /\ pc = "idle"
    /\ \E contours \in ContourLists, similarity \in SimilarityValues,
          edge_nonzero \in EdgeCounts :
          LET imgs == [size |-> ImageSize(Shape400x300), edge_nonzero |-> edge_nonzero]
          IN  call' = [ method |-> "_analyze_differences",
                        imgs |-> imgs,
                        contours |-> contours,
                        similarity |-> similarity,
                        value |-> AnalyzeDifferences(config, imgs, contours, similarity) ]
    /\ pc' = "called"
    /\ UNCHANGED <<config, results, image_pairs, save_diffs, batch_results, pair_index,
                   report>>

NextClassify == CallAnalyzeDifferences

SpecClassify == InitClassify /\ [][NextClassify]_vars

-----------------------------------------------------------------------------
(* ScreenshotBugDetector (src/screenshot_bug_detector.py): its own         *)
(* compare_images(image1_path, image2_path) and detect_visual_bugs.        *)

ScreenshotDefaultConfig ==
    [ screenshots_dir |-> "screenshots",
      reference_dir |-> "reference_images",
      reports_dir |-> "bug_reports",
      threshold |-> 95,
      viewport_sizes |-> << [width |-> 1920, height |-> 1080, name |-> "desktop"],
                            [width |-> 1366, height |-> 768, name |-> "laptop"],
                            [width |-> 768, height |-> 1024, name |-> "tablet"],
                            [width |-> 375, height |-> 667, name |-> "mobile"] >>,
      wait_timeout |-> 10,
      screenshot_delay |-> 2 ]

(* compare_images(image1, image2): there is no os.path.exists test; a      *)
(* missing file makes cv2.imread return None.  The second image is the one *)
(* resized.  `answers` are the library's answers for the two images.       *)
ScreenshotCompareImages(cfg, shape1, shape2, answers) ==
    IF shape1 = NoImage \/ shape2 = NoImage
    THEN ErrorResult(<<"Could not load one or both images">>)
    ELSE IF SsimRaises(shape1)
    THEN ErrorResult(<<"Image comparison failed: ", "win_size exceeds image extent">>)
    ELSE [ similarity |-> answers.ssim,
           difference_percentage |-> (answers.diff_nonzero * 100) \div ImageSize(shape1),
           contours_count |-> Len(answers.contours),
           is_similar |-> answers.ssim >= cfg.threshold,
           difference_visualization |-> [shape |-> shape1, outlines |-> answers.contours],
           contours |-> answers.contours ]

VisualDifferenceBugs(comparison_result) ==
    IF ~comparison_result.is_similar
    THEN << [ type |-> "visual_difference",
              severity |-> IF comparison_result.similarity < 80 THEN "high" ELSE "medium",
              description |-> << "Visual difference detected. Similarity: ",
                                 comparison_result.similarity >>,
              difference_percentage |-> comparison_result.difference_percentage,
              contours_count |-> comparison_result.contours_count ] >>
    ELSE <<>>

LayoutIssueBugs(comparison_result) ==
    IF comparison_result.contours_count > 10
    THEN << [ type |-> "layout_issue",
              severity |-> "medium",
              description |-> << "Multiple layout differences detected (",
                                 comparison_result.contours_count, " areas)" >>,
              difference_percentage |-> comparison_result.difference_percentage ] >>
    ELSE <<>>

(* detect_visual_bugs(current_screenshot, reference_screenshot) calls       *)
(* self.compare_images(current_screenshot, reference_screenshot): the      *)
(* current screenshot is image1 and the reference is image2.               *)
DetectVisualBugs(cfg, scene) ==
    LET comparison_result ==
            ScreenshotCompareImages(cfg, scene.cur_shape, scene.ref_shape, scene)
    IN  IF IsError(comparison_result) THEN comparison_result
        ELSE LET bugs == VisualDifferenceBugs(comparison_result)
                         \o LayoutIssueBugs(comparison_result)
             IN  [ bugs_found |-> Len(bugs) > 0,
                   bugs |-> bugs,
                   comparison_metrics |-> comparison_result ]

(* The shapes detect_visual_bugs compares: image2, the reference, is the   *)
(* one resized.                                                            *)
DetectVisualBugsWorkingShapes(scene) ==
    [ current |-> scene.cur_shape,
      reference |-> ResizeToMatch(scene.cur_shape, scene.ref_shape) ]

-----------------------------------------------------------------------------
(* Single comparisons: one call of GenericBugDetector.compare_images or of *)
(* ScreenshotBugDetector.detect_visual_bugs on any scene, the generic      *)
(* detector built from any of the given configurations.                    *)

(* The constructor arguments: none; only output_dir, as main() passes for  *)
(* --output; a file that sets the threshold and the area but no severity   *)
(* table; a complete configuration with another minimum area; a complete   *)
(* one with a threshold of 0.99.                                           *)
GivenConfigs ==
    { NoConfig,
      [output_dir |-> "reports"],
      [threshold |-> 90, min_contour_area |-> 101],
      [DefaultConfig EXCEPT !.min_contour_area = 101],
      [DefaultConfig EXCEPT !.threshold = 99] }

Shapes == {NoImage, <<5, 5>>, Shape400x300, <<600, 800>>}

RawContourShapes ==
    { [area |-> 100, box |-> <<10, 10, 11, 11>>],
      [area |-> 101, box |-> <<30, 10, 12, 12>>],
      [area |-> 102, box |-> <<50, 10, 13, 13>>],
      [area |-> 10001, box |-> <<40, 50, 130, 90>>] }

RawContourLists == UNION {[1..n -> RawContourShapes] : n \in 0..MaxRawContours}

(* A file that does not exist cannot be loaded. *)
Scenes ==
    { Scene("ref.png", "cur.png", re, ce, rs, cs, sim, 1200, cl, 0) :
        re \in BOOLEAN, ce \in BOOLEAN, rs \in Shapes, cs \in Shapes,
        sim \in {67, 90, 96}, cl \in RawContourLists }

(* An image compared with a bit-identical one: the structural similarity   *)
(* of equal arrays is 1.0 where ssim can be computed, cv2.absdiff is zero  *)
(* everywhere, and so are its threshold mask and the edge difference.      *)
IdenticalScenes ==
    { Scene("img.png", "copy.png", TRUE, TRUE, shape, shape, 100, 0, <<>>, 0) :
        shape \in Shapes \ {NoImage} }

LoadableScenes ==
    { sc \in Scenes : /\ (~sc.ref_exists => sc.ref_shape = NoImage)
                      /\ (~sc.cur_exists => sc.cur_shape = NoImage) }
    \cup IdenticalScenes

InitCompare ==
    /\ NoUi
    /\ config \in {Construct(given) : given \in GivenConfigs}
    /\ results = <<>>
    /\ pc = "idle"
    /\ image_pairs = <<>>
    /\ save_diffs = FALSE
    /\ batch_results = <<>>
    /\ pair_index = 0
    /\ report = NoReport
    /\ call = NoCall

CallCompareImages ==
    /\ UNCHANGED uiVars
    /\ pc = "idle"
    /\ \E scene \in LoadableScenes :
          call' = [ method |-> "compare_images",
                    scene |-> scene,
                    working |-> CompareImagesWorkingShapes(scene),
                    value |-> CompareImages(config, scene, "test") ]
    /\ pc' = "called"
    /\ UNCHANGED <<config, results, image_pairs, save_diffs, batch_results, pair_index,
                   report>>

CallDetectVisualBugs ==
    /\ UNCHANGED uiVars
    /\ pc = "idle"
    /\ \E scene \in LoadableScenes :
          call' = [ method |-> "detect_visual_bugs",
                    scene |-> scene,
                    working |-> DetectVisualBugsWorkingShapes(scene),
                    value |-> DetectVisualBugs(ScreenshotDefaultConfig, scene) ]
    /\ pc' = "called"
    /\ UNCHANGED <<config, results, image_pairs, save_diffs, batch_results, pair_index,
                   report>>

NextCompare ==
    \/ CallCompareImages
    \/ CallDetectVisualBugs

SpecCompare == InitCompare /\ [][NextCompare]_vars

-----------------------------------------------------------------------------
(* The region list of one _analyze_differences call below the threshold:   *)
(* any list of retained contours, among them contours of equal area at     *)
(* different places.                                                       *)

MaxRegions == 4

SortContourShapes ==
    { [area |-> 150, box |-> <<10, 10, 15, 10>>],
      [area |-> 150, box |-> <<200, 40, 10, 15>>],
      [area |-> 500, box |-> <<90, 120, 25, 20>>],
      [area |-> 10001, box |-> <<40, 50, 130, 90>>],
      [area |-> 10001, box |-> <<220, 160, 90, 130>>] }

SortContourLists == UNION {[1..n -> SortContourShapes] : n \in 0..MaxRegions}

InitSort ==
    /\ NoUi
    /\ config = DefaultConfig
    /\ results = <<>>
    /\ pc = "idle"
    /\ image_pairs = <<>>
    /\ save_diffs = FALSE
    /\ batch_results = <<>>
    /\ pair_index = 0
    /\ report = NoReport
    /\ call = NoCall

CallSortRegions ==
    /\ UNCHANGED uiVars
    /\ pc = "idle"
    /\ \E contours \in SortContourLists :
          LET imgs == [size |-> ImageSize(Shape400x300), edge_nonzero |-> 0]
          IN  call' = [ method |-> "diff_regions.sort",
                        contours |-> contours,
                        diff_regions |-> DiffRegions(contours),
                        value |-> AnalyzeDifferences(config, imgs, contours, 67) ]
    /\ pc' = "called"
    /\ UNCHANGED <<config, results, image_pairs, save_diffs, batch_results, pair_index,
                   report>>

NextSort == CallSortRegions

SpecSort == InitSort /\ [][NextSort]_vars

-----------------------------------------------------------------------------
(* ScreenshotBugDetector.run_comprehensive_test, generate_bug_report and   *)
(* cleanup, as test_runner.run_visual_regression_test calls them.          *)

(* dict.update: the keys of `other` replace or extend those of `d`. *)
Update(d, other) ==
    [k \in DOMAIN d \cup DOMAIN other |-> IF k \in DOMAIN other THEN other[k] ELSE d[k]]

(* webdriver.Chrome(...): a new WebDriver object, not quit yet. *)
NewDriver == Len(quits) + 1

(* driver.quit() on the object `d`. *)
Quit(q, d) == [q EXCEPT ![d] = q[d] + 1]

ElevenContours == [i \in 1..11 |-> [area |-> 40, box |-> <<20 * i, 10, 8, 5>>]]

(* What one viewport of the page under test gives: capture_screenshot      *)
(* fails (returns None); no reference file; or a reference file that is    *)
(* corrupt, equal to the capture, close to it, far from it, or differing   *)
(* in eleven small places.                                                 *)
ViewportOutcomes ==
    { [captured |-> FALSE, reference_exists |-> FALSE, decodable |-> FALSE,
       ssim |-> 0, diff_nonzero |-> 0, contours |-> <<>>],
      [captured |-> TRUE, reference_exists |-> FALSE, decodable |-> FALSE,
       ssim |-> 0, diff_nonzero |-> 0, contours |-> <<>>],
      [captured |-> TRUE, reference_exists |-> TRUE, decodable |-> FALSE,
       ssim |-> 0, diff_nonzero |-> 0, contours |-> <<>>],
      [captured |-> TRUE, reference_exists |-> TRUE, decodable |-> TRUE,
       ssim |-> 100, diff_nonzero |-> 0, contours |-> <<>>],
      [captured |-> TRUE, reference_exists |-> TRUE, decodable |-> TRUE,
       ssim |-> 90, diff_nonzero |-> 1200,
       contours |-> <<[area |-> 900, box |-> <<10, 10, 30, 30>>]>>],
      [captured |-> TRUE, reference_exists |-> TRUE, decodable |-> TRUE,
       ssim |-> 67, diff_nonzero |-> 90000,
       contours |-> <<[area |-> 80000, box |-> <<0, 0, 300, 300>>]>>],
      [captured |-> TRUE, reference_exists |-> TRUE, decodable |-> TRUE,
       ssim |-> 96, diff_nonzero |-> 600, contours |-> ElevenContours] }

ViewportShape(viewport) == <<viewport.height, viewport.width>>

ViewportScene(test_name, viewport, outcome) ==
    Scene(<<"reference_images/", test_name, "_", viewport.name, "_reference.png">>,
          <<"screenshots/", test_name, "_", viewport.name, "_current.png">>,
          outcome.reference_exists, outcome.captured,
          IF outcome.decodable THEN ViewportShape(viewport) ELSE NoImage,
          ViewportShape(viewport),
          outcome.ssim, outcome.diff_nonzero, outcome.contours, 0)

MissingReferenceBugs ==
    << [ type |-> "missing_reference",
         severity |-> "low",
         description |-> <<"No reference image available for comparison">> ] >>

(* The test_result of one viewport whose screenshot was captured           *)
(* (lines 379-408).                                                        *)
ViewportTestResult(cfg, test_name, viewport, outcome) ==
    LET scene == ViewportScene(test_name, viewport, outcome)
        test_result ==
            [ test_name |-> <<test_name, "_", viewport.name>>,
              url |-> "url",
              viewport |-> <<viewport.width, "x", viewport.height, viewport.name>>,
              current_screenshot |-> scene.current_path,
              reference_screenshot |->
                  IF outcome.reference_exists THEN scene.reference_path ELSE <<>>,
              bugs_found |-> FALSE,
              bugs |-> <<>>,
              comparison_metrics |-> None ]
    IN  IF outcome.reference_exists
        THEN LET bug_detection == DetectVisualBugs(cfg, scene)
                 updated == Update(test_result, bug_detection)
             IN  IF ~IsError(bug_detection) /\ bug_detection.bugs_found
                 THEN Update(updated,
                        [difference_visualization |->
                            <<"screenshots/", test_name, "_", viewport.name, "_diff.png">>])
                 ELSE updated
        ELSE [test_result EXCEPT !.bugs = MissingReferenceBugs]

(* generate_bug_report lines 209-220. *)
RECURSIVE TotalBugs(_)
TotalBugs(rs) ==
    IF rs = <<>> THEN 0
    ELSE Len(Get(Head(rs), "bugs", <<>>)) + TotalBugs(Tail(rs))

FailedTests(rs) == Cardinality({i \in 1..Len(rs) : Get(rs[i], "bugs_found", FALSE)})

ReportData(rs) ==
    [ total_tests |-> Len(rs),
      total_bugs |-> TotalBugs(rs),
      failed_tests |-> FailedTests(rs),
      success_rate |-> IF Len(rs) > 0
                       THEN [num |-> (Len(rs) - FailedTests(rs)) * 100, den |-> Len(rs)]
                       ELSE [num |-> 0, den |-> 1],
      test_results |-> rs ]

InitScreenshot ==
    /\ config = ScreenshotDefaultConfig
    /\ results = <<>>
    /\ pc = "idle"
    /\ image_pairs = <<>>
    /\ save_diffs = FALSE
    /\ batch_results = <<>>
    /\ pair_index = 0
    /\ report = NoReport
    /\ call = NoCall
    /\ NoUi

(* run_comprehensive_test is entered: test_results = [] *)
RunComprehensiveTestStart ==
    /\ pc = "idle"
    /\ pc' = "run_comprehensive_test"
    /\ test_results' = <<>>
    /\ viewport_index' = 0
    /\ UNCHANGED <<report_data, driver, detector_driver, quits, test_index>>
    /\ UNCHANGED coreVars

(* One iteration of the loop over config['viewport_sizes'].                *)
(* capture_screenshot makes the detector's driver when there is none,      *)
(* outside its try block: webdriver.Chrome may raise.                      *)
RunComprehensiveTestStep ==
    /\ pc = "run_comprehensive_test"
    /\ viewport_index < Len(config.viewport_sizes)
    /\ viewport_index' = viewport_index + 1
    /\ \E outcome \in ViewportOutcomes, chrome \in {"ok", "raises"} :
          LET viewport == config.viewport_sizes[viewport_index + 1]
          IN  IF detector_driver = NoDriver /\ chrome = "raises"
              THEN /\ pc' = "test_raised"
                   /\ UNCHANGED <<test_results, detector_driver, quits>>
              ELSE /\ IF detector_driver = NoDriver
                      THEN /\ detector_driver' = NewDriver
                           /\ quits' = Append(quits, 0)
                      ELSE UNCHANGED <<detector_driver, quits>>
                   /\ test_results' =
                         IF outcome.captured
                         THEN Append(test_results,
                                     ViewportTestResult(config, "test", viewport, outcome))
                         ELSE test_results
                   /\ UNCHANGED pc
    /\ UNCHANGED <<report_data, driver, test_index>>
    /\ UNCHANGED coreVars

(* run_comprehensive_test returns its test_results. *)
RunComprehensiveTestReturn ==
    /\ pc = "run_comprehensive_test"
    /\ viewport_index >= Len(config.viewport_sizes)
    /\ pc' = "tested"
    /\ UNCHANGED uiVars
    /\ UNCHANGED coreVars

(* generate_bug_report(test_result['results']): the numbers it renders. *)
GenerateBugReport ==
    /\ pc = "tested"
    /\ report_data' = ReportData(test_results)
    /\ pc' = "bug_reported"
    /\ UNCHANGED <<test_results, viewport_index, driver, detector_driver, quits, test_index>>
    /\ UNCHANGED coreVars

(* ScreenshotBugDetector.cleanup, in the caller's finally clause. *)
DetectorCleanup ==
    /\ pc \in {"tested", "bug_reported", "test_raised"}
    /\ IF detector_driver # NoDriver
       THEN /\ quits' = Quit(quits, detector_driver)
            /\ detector_driver' = NoDriver
       ELSE UNCHANGED <<quits, detector_driver>>
    /\ pc' = "cleaned"
    /\ UNCHANGED <<test_results, viewport_index, report_data, driver, test_index>>
    /\ UNCHANGED coreVars

NextScreenshot ==
    \/ RunComprehensiveTestStart
    \/ RunComprehensiveTestStep
    \/ RunComprehensiveTestReturn
    \/ GenerateBugReport
    \/ DetectorCleanup

SpecScreenshot == InitScreenshot /\ [][NextScreenshot]_vars

-----------------------------------------------------------------------------
(* SudokuTestAutomation (src/sudoku_test_automation.py): setup_driver,     *)
(* run_all_tests and cleanup, as its main() and                            *)
(* TestRunner.run_sudoku_tests call them.                                  *)

MaxDrivers == 2

(* run_all_tests lines 549-555, with the test_name each function sets. *)
Tests ==
    << [func |-> "test_game_initialization", test_name |-> "game_initialization"],
       [func |-> "test_difficulty_selection", test_name |-> "difficulty_selection"],
       [func |-> "test_cell_interaction", test_name |-> "cell_interaction"],
       [func |-> "test_game_controls", test_name |-> "game_controls"],
       [func |-> "test_responsive_design", test_name |-> "responsive_design"] >>

(* What a test function does: it finds no bug, it finds one, an exception  *)
(* is raised inside its try block, or one leaves the function.             *)
TestOutcomes == {"passed", "bugs", "exception", "raises"}

ViewportNames == <<"desktop", "laptop", "tablet", "mobile">>

(* The dict a test function returns (lines 199-225 and alike; 523-537 for  *)
(* test_responsive_design, whose except clause adds one bug per viewport). *)
TestFunctionResult(test, outcome) ==
    LET bugs ==
            IF outcome = "passed" THEN <<>>
            ELSE IF outcome = "bugs"
            THEN << [ type |-> "element_not_found", severity |-> "high",
                      description |-> <<"Game board not found">> ] >>
            ELSE IF test.func = "test_responsive_design"
            THEN [ i \in 1..Len(ViewportNames) |->
                     [ type |-> "viewport_test_error", severity |-> "high",
                       description |-> <<"Error testing ", ViewportNames[i],
                                         " viewport: ", "exception">> ] ]
            ELSE << [ type |-> "test_execution_error", severity |-> "high",
                      description |-> <<"Test execution failed: ", "exception">> ] >>
        result ==
            [ test_name |-> test.test_name,
              url |-> "base_url",
              viewport |-> IF test.func = "test_responsive_design"
                           THEN "multiple" ELSE "default",
              bugs_found |-> Len(bugs) > 0,
              bugs |-> bugs,
              screenshots |-> <<>> ]
    IN  IF outcome = "exception" /\ test.func # "test_responsive_design"
        THEN Update(result, [error |-> "exception"])
        ELSE result

(* run_all_tests lines 562-575: the result made of an exception that       *)
(* leaves the test function.                                               *)
TestFailureResult(test) ==
    [ test_name |-> test.func,
      url |-> "base_url",
      viewport |-> "default",
      bugs_found |-> TRUE,
      bugs |-> << [ type |-> "test_failure", severity |-> "high",
                    description |-> <<"Test function failed: ", "exception">> ] >>,
      screenshots |-> <<>>,
      error |-> "exception" ]

(* A loop that gives up at the first exception leaving a test function. *)
RunTestOrStop(rs, test, outcome) ==
    IF outcome = "raises" THEN rs ELSE Append(rs, TestFunctionResult(test, outcome))

(* The body of the for loop of run_all_tests, lines 557-576. *)
RunTest(rs, test, outcome) ==
    IF outcome = "raises"
    THEN Append(rs, TestFailureResult(test))
    ELSE Append(rs, TestFunctionResult(test, outcome))

UiReady == pc \in {"idle", "cleaned", "tests_returned"}

InitSudoku ==
    /\ config = ScreenshotDefaultConfig
    /\ results = <<>>
    /\ pc = "idle"
    /\ image_pairs = <<>>
    /\ save_diffs = FALSE
    /\ batch_results = <<>>
    /\ pair_index = 0
    /\ report = NoReport
    /\ call = NoCall
    /\ NoUi

(* SudokuTestAutomation.setup_driver: self.driver =                        *)
(* self.detector.setup_driver(), which stores the same object in the       *)
(* detector's self.driver.                                                 *)
SetupDriver ==
    /\ UiReady
    /\ Len(quits) < MaxDrivers
    /\ \E chrome \in {"ok", "raises"} :
          IF chrome = "raises"
          THEN /\ pc' = "ui_raised"
               /\ UNCHANGED <<driver, detector_driver, quits>>
          ELSE /\ pc' = "idle"
               /\ detector_driver' = NewDriver
               /\ driver' = NewDriver
               /\ quits' = Append(quits, 0)
    /\ UNCHANGED <<test_results, viewport_index, report_data, test_index>>
    /\ UNCHANGED coreVars

(* run_all_tests is entered: the driver is set up if there is none, and    *)
(* test_results = [].                                                      *)
RunAllTestsStart ==
    /\ UiReady
    /\ \E chrome \in {"ok", "raises"} :
          IF driver # NoDriver
          THEN /\ pc' = "run_all_tests"
               /\ UNCHANGED <<driver, detector_driver, quits>>
          ELSE /\ Len(quits) < MaxDrivers
               /\ IF chrome = "raises"
                  THEN /\ pc' = "ui_raised"
                       /\ UNCHANGED <<driver, detector_driver, quits>>
                  ELSE /\ pc' = "run_all_tests"
                       /\ detector_driver' = NewDriver
                       /\ driver' = NewDriver
                       /\ quits' = Append(quits, 0)
    /\ test_results' = <<>>
    /\ test_index' = 0
    /\ UNCHANGED <<viewport_index, report_data>>
    /\ UNCHANGED coreVars

(* One iteration of `for test_func in tests`. *)
RunAllTestsStep ==
    /\ pc = "run_all_tests"
    /\ test_index < Len(Tests)
    /\ test_index' = test_index + 1
    /\ \E outcome \in TestOutcomes :
          test_results' = RunTest(test_results, Tests[test_index + 1], outcome)
    /\ UNCHANGED <<pc, viewport_index, report_data, driver, detector_driver, quits>>
    /\ UNCHANGED coreVars

(* run_all_tests: return test_results *)
RunAllTestsReturn ==
    /\ pc = "run_all_tests"
    /\ test_index >= Len(Tests)
    /\ pc' = "tests_returned"
    /\ UNCHANGED uiVars
    /\ UNCHANGED coreVars

(* SudokuTestAutomation.cleanup (lines 580-585), then the                  *)
(* ScreenshotBugDetector.cleanup it calls (lines 438-442).                 *)
QuitsAfterCleanup ==
    LET own == IF driver # NoDriver THEN Quit(quits, driver) ELSE quits
    IN  IF detector_driver # NoDriver THEN Quit(own, detector_driver) ELSE own

Cleanup ==
    /\ pc \in {"idle", "tests_returned", "ui_raised"}
    /\ quits' = QuitsAfterCleanup
    /\ driver' = NoDriver
    /\ detector_driver' = NoDriver
    /\ pc' = "cleaned"
    /\ UNCHANGED <<test_results, viewport_index, report_data, test_index>>
    /\ UNCHANGED coreVars

NextSudoku ==
    \/ SetupDriver
    \/ RunAllTestsStart
    \/ RunAllTestsStep
    \/ RunAllTestsReturn
    \/ Cleanup

SpecSudoku == InitSudoku /\ [][NextSudoku]_vars

-----------------------------------------------------------------------------
(* Properties *)

Called(method) == pc = "called" /\ call.method = method

NonErrorResults(rs) == SelectSeq(rs, LAMBDA r : ~IsError(r))

(* C1: _analyze_differences returns an empty finding list whenever the     *)
(* similarity is at or above config['threshold'], whatever the retained    *)
(* regions and the images are.  Checked under SpecClassify.                *)
C1_EmptyAtOrAboveThreshold ==
    (Called("_analyze_differences") /\ call.similarity >= config.threshold)
        => call.value = <<>>

(* A call at the threshold with more than five regions, the largest over   *)
(* 10000 pixels, and an edge divergence above 5%.                          *)
C1_Witness ==
    /\ Called("_analyze_differences")
    /\ call.similarity = config.threshold
    /\ Len(call.contours) > 5
    /\ \E i \in 1..Len(call.contours) : call.contours[i].area > 10000
    /\ DetectTextIssues(call.imgs)

(* C2: every non-error result has bugs_found = (len(bugs) > 0), in         *)
(* self.results and in the list compare_batch builds, after any sequence   *)
(* of compare_image_pair and compare_batch calls.                          *)
C2_BugsFoundIffBugs ==
    /\ \A i \in 1..Len(results) :
          ~IsError(results[i]) =>
              (results[i].bugs_found <=> Len(results[i].bugs) > 0)
    /\ \A i \in 1..Len(batch_results) :
          ~IsError(batch_results[i]) =>
              (batch_results[i].bugs_found <=> Len(batch_results[i].bugs) > 0)

(* self.results holds a result with findings and a result without any      *)
(* whose severity is not 'none'.                                           *)
C2_Witness ==
    /\ \E i \in 1..Len(results) :
          ~IsError(results[i]) /\ results[i].bugs_found /\ Len(results[i].bugs) > 0
    /\ \E i \in 1..Len(results) :
          /\ ~IsError(results[i])
          /\ ~results[i].bugs_found
          /\ results[i].severity # "none"

(* C3: with the default severity table _determine_severity(s) is           *)
(* 'critical' below 0.70, else 'high' below 0.80, else 'medium' below      *)
(* 0.90, else 'low' below 0.95, else 'none'; the comparisons are strict.   *)
(* Checked under SpecSeverity.                                             *)
C3_DefaultTable ==
    (Called("_determine_severity") /\ config.severity_levels = DefaultSeverityLevels)
        => call.value = ( IF call.similarity < 70 THEN "critical"
                          ELSE IF call.similarity < 80 THEN "high"
                          ELSE IF call.similarity < 90 THEN "medium"
                          ELSE IF call.similarity < 95 THEN "low"
                          ELSE "none" )

(* A score equal to the 'high' cutoff is rated 'medium'. *)
C3_Witness ==
    /\ Called("_determine_severity")
    /\ config.severity_levels = DefaultSeverityLevels
    /\ call.similarity = 80
    /\ call.value = "medium"

SeverityRank(label) ==
    CASE label = "critical" -> 4
      [] label = "high" -> 3
      [] label = "medium" -> 2
      [] label = "low" -> 1
      [] OTHER -> 0

(* The label the first tier strictly above the score has when the tiers    *)
(* are taken in descending severity order.                                 *)
MostSevereTierAbove(levels, similarity) ==
    LET above == {i \in 1..Len(levels) : similarity < levels[i][2]}
    IN  IF above = {} THEN "none"
        ELSE levels[CHOOSE i \in above :
                      \A j \in above :
                          SeverityRank(levels[j][1]) <= SeverityRank(levels[i][1])][1]

(* C4: for any configured severity table, in whatever order the            *)
(* configuration lists its tiers, _determine_severity(s) is the label of   *)
(* the first tier in descending severity order whose cutoff s is strictly  *)
(* below, and 'none' without such a tier.  Checked under SpecSeverity.     *)
C4_DescendingSeverityOrder ==
    Called("_determine_severity")
        => call.value = MostSevereTierAbove(config.severity_levels, call.similarity)

(* C5: the list compare_batch returns has one entry per pair, entry i      *)
(* being the result of comparing pairs[i], error results included; while   *)
(* the loop runs the list holds the results of the pairs taken so far.     *)
C5_BatchOrderAndCount ==
    /\ pc \in {"batch", "returned"} =>
          /\ Len(batch_results) = pair_index
          /\ \A i \in 1..Len(batch_results) :
                i <= Len(image_pairs)
                /\ batch_results[i] =
                      CompareImagePairResult(config, image_pairs[i], save_diffs)
    /\ pc = "returned" => Len(batch_results) = Len(image_pairs)

(* A returned batch whose first pair gave an error result and whose second *)
(* pair gave a comparison.                                                 *)
C5_Witness ==
    /\ pc = "returned"
    /\ Len(image_pairs) >= 2
    /\ Len(batch_results) >= 2
    /\ IsError(batch_results[1])
    /\ ~IsError(batch_results[2])

(* C6: no failure while one pair is processed leaves compare_batch as an   *)
(* exception: it becomes an error result at the pair's position and the    *)
(* later pairs are still compared.                                         *)
C6_NoFailureLeavesBatch == pc # "batch_raised"

(* C7: the average similarity and the average difference percentage of a   *)
(* report are the means over its non-error results only.  The fractions    *)
(* are compared by cross multiplication.                                   *)
C7_MeansOverNonErrorResults ==
    pc = "reported" =>
        LET ok == NonErrorResults(report.results)
            s == report.summary
        IN  /\ s.total_tests = Len(report.results)
            /\ s.avg_similarity.num * Len(ok)
                  = SumOver(ok, "similarity", 0) * s.avg_similarity.den
            /\ s.avg_diff_percentage.num * Len(ok)
                  = SumOver(ok, "difference_percentage", 0) * s.avg_diff_percentage.den

RECURSIVE SumCounts(_, _)
SumCounts(counts, labels) ==
    IF labels = {} THEN 0
    ELSE LET l == CHOOSE x \in labels : TRUE
         IN  counts[l] + SumCounts(counts, labels \ {l})

(* C8: the severity histogram of a report counts its non-error results     *)
(* only: the counts add up to the number of successful comparisons, on     *)
(* the summary sheet and on the statistics sheet.                          *)
C8_HistogramCountsNonErrorResults ==
    pc = "reported" =>
        /\ SumCounts(report.summary.severity_counts, SeverityLabels)
              = Len(NonErrorResults(report.results))
        /\ SumCounts(report.statistics.severity_counts, SeverityLabels)
              = Len(NonErrorResults(report.results))

(* C9: _analyze_differences reports a color_contrast_issue, of severity    *)
(* 'low', exactly when similarity < threshold, similarity > 0.80 and fewer *)
(* than 3 regions are retained, zero regions included.  Checked under      *)
(* SpecClassify.                                                           *)
C9_ColorContrastExactly ==
    Called("_analyze_differences") =>
        /\ HasBug(call.value, "color_contrast_issue")
              <=> ( /\ call.similarity < config.threshold
                    /\ call.similarity > 80
                    /\ Len(call.contours) < 3 )
        /\ \A i \in 1..Len(call.value) :
              call.value[i].type = "color_contrast_issue"
                  => call.value[i].severity = "low"

(* C10: _analyze_differences reports a text_rendering_issue, of severity   *)
(* 'medium', exactly when similarity < threshold and the edge divergence   *)
(* exceeds 5%, whatever the number of retained regions, zero included.     *)
(* Checked under SpecClassify.                                             *)
C10_TextRenderingExactly ==
    Called("_analyze_differences") =>
        /\ HasBug(call.value, "text_rendering_issue")
              <=> ( /\ call.similarity < config.threshold
                    /\ call.imgs.edge_nonzero * 100 > 5 * call.imgs.size )
        /\ \A i \in 1..Len(call.value) :
              call.value[i].type = "text_rendering_issue"
                  => call.value[i].severity = "medium"

BugsOfType(bugs, type) == SelectSeq(bugs, LAMBDA b : b.type = type)

(* The first contour, in discovery order, whose area no contour exceeds. *)
FirstLargest(contours) ==
    contours[CHOOSE i \in 1..Len(contours) :
                /\ \A j \in 1..Len(contours) : contours[j].area <= contours[i].area
                /\ \A j \in 1..(i - 1) : contours[j].area < contours[i].area]

(* C11: _analyze_differences reports a layout_shift exactly when           *)
(* similarity < threshold and the largest retained region's area is        *)
(* strictly greater than 10000; its severity is severity_for(similarity),  *)
(* its area the largest region's area and its location that region's       *)
(* centre (x + w//2, y + h//2).  Checked under SpecClassify.               *)
C11_LayoutShiftExactly ==
    Called("_analyze_differences") =>
        /\ HasBug(call.value, "layout_shift")
              <=> ( /\ call.similarity < config.threshold
                    /\ \E i \in 1..Len(call.contours) : call.contours[i].area > 10000 )
        /\ \A i \in 1..Len(call.value) :
              call.value[i].type = "layout_shift" =>
                  LET largest == FirstLargest(call.contours)
                  IN  /\ call.value[i].severity
                            = DetermineSeverity(config, call.similarity)
                      /\ call.value[i].area = largest.area
                      /\ call.value[i].location
                            = << largest.box[1] + (largest.box[3] \div 2),
                                 largest.box[2] + (largest.box[4] \div 2) >>

(* A layout_shift is reported for a list whose largest region is not the   *)
(* first one found, and none for a list whose largest region has exactly   *)
(* 10000 pixels.                                                           *)
C11_Witness ==
    /\ Called("_analyze_differences")
    /\ HasBug(call.value, "layout_shift")
    /\ Len(call.contours) >= 2
    /\ call.contours[1].area < 10000
    /\ call.similarity = 69

C11_WitnessBoundary ==
    /\ Called("_analyze_differences")
    /\ call.similarity < config.threshold
    /\ Len(call.contours) >= 1
    /\ FirstLargest(call.contours).area = 10000
    /\ ~HasBug(call.value, "layout_shift")

(* C12: _analyze_differences reports multiple_differences exactly when     *)
(* similarity < threshold and more than 5 regions are retained (exactly 5  *)
(* do not fire); its severity is severity_for(similarity) and its          *)
(* region_count the number of retained regions.  Checked under             *)
(* SpecClassify.                                                           *)
C12_MultipleDifferencesExactly ==
    Called("_analyze_differences") =>
        /\ HasBug(call.value, "multiple_differences")
              <=> ( /\ call.similarity < config.threshold
                    /\ Len(call.contours) > 5 )
        /\ \A i \in 1..Len(call.value) :
              call.value[i].type = "multiple_differences" =>
                  /\ call.value[i].severity = DetermineSeverity(config, call.similarity)
                  /\ call.value[i].region_count = Len(call.contours)

(* Six regions under the threshold give the finding. *)
C12_Witness ==
    /\ Called("_analyze_differences")
    /\ Len(call.contours) = 6
    /\ call.similarity = 79
    /\ Len(BugsOfType(call.value, "multiple_differences")) = 1

(* severity_for with the default table, written out. *)
DefaultSeverityFor(similarity) ==
    IF similarity < 70 THEN "critical"
    ELSE IF similarity < 80 THEN "high"
    ELSE IF similarity < 90 THEN "medium"
    ELSE IF similarity < 95 THEN "low"
    ELSE "none"

(* C13: in every non-error result the top-level severity is                *)
(* severity_for(similarity) and does not depend on the bug list: results   *)
(* with the same similarity have the same severity whether or not they     *)
(* have findings.  (The detector of Spec has the default severity table.)  *)
C13_SeverityFromSimilarityOnly ==
    /\ \A i \in 1..Len(results) :
          ~IsError(results[i]) =>
              results[i].severity = DefaultSeverityFor(results[i].similarity)
    /\ \A i, j \in 1..Len(results) :
          (~IsError(results[i]) /\ ~IsError(results[j])
              /\ results[i].similarity = results[j].similarity)
          => results[i].severity = results[j].severity

(* Two results of equal similarity and severity: one without findings,     *)
(* bugs_found false and a severity other than 'none'; one whose only       *)
(* finding has another severity than the result.                           *)
C13_Witness ==
    \E i, j \in 1..Len(results) :
        /\ ~IsError(results[i]) /\ ~IsError(results[j])
        /\ results[i].similarity = results[j].similarity
        /\ results[i].severity = results[j].severity
        /\ results[i].bugs = <<>>
        /\ ~results[i].bugs_found
        /\ results[i].severity # "none"
        /\ Len(results[j].bugs) = 1
        /\ results[j].bugs[1].severity # results[j].severity

(* C14: _determine_severity is monotone: for all similarities s1 <= s2     *)
(* the severity rank (critical > high > medium > low > none) of            *)
(* severity_for(s2) is at most that of severity_for(s1).  The call made    *)
(* is s1; s2 ranges over the other scores.  Checked under SpecSeverity.    *)
C14_Monotone ==
    Called("_determine_severity") =>
        \A s2 \in SimilarityValues :
            call.similarity <= s2 =>
                SeverityRank(DetermineSeverity(config, s2)) <= SeverityRank(call.value)

(* The same for the default table alone, where it holds. *)
C14_MonotoneDefaultTable ==
    (Called("_determine_severity") /\ config.severity_levels = DefaultSeverityLevels) =>
        \A s2 \in SimilarityValues :
            call.similarity <= s2 =>
                SeverityRank(DetermineSeverity(config, s2)) <= SeverityRank(call.value)


(* C15: compare_images returns an error result, and no comparison, when    *)
(* loading fails: a missing reference path gives the error naming the      *)
(* reference path (whatever the current path is), otherwise a missing      *)
(* current path gives the error naming the current path, and two existing  *)
(* files of which one cannot be decoded give the decode error, different   *)
(* from both; such a result has no key but 'error'.                        *)
LoadingFails(scene) ==
    \/ ~scene.ref_exists
    \/ ~scene.cur_exists
    \/ scene.ref_shape = NoImage
    \/ scene.cur_shape = NoImage

C15_LoadErrors ==
    (Called("compare_images") /\ LoadingFails(call.scene)) =>
        /\ DOMAIN call.value = {"error"}
        /\ ~call.scene.ref_exists =>
              call.value.error = <<"Reference image not found: ", call.scene.reference_path>>
        /\ (call.scene.ref_exists /\ ~call.scene.cur_exists) =>
              call.value.error = <<"Current image not found: ", call.scene.current_path>>
        /\ (call.scene.ref_exists /\ call.scene.cur_exists) =>
              /\ call.value.error = <<"Could not load one or both images">>
              /\ call.value.error[1] \notin {"Reference image not found: ",
                                             "Current image not found: "}

(* Both paths are missing and the error names the reference. *)
C15_Witness ==
    /\ Called("compare_images")
    /\ ~call.scene.ref_exists
    /\ ~call.scene.cur_exists
    /\ call.value = ErrorResult(<<"Reference image not found: ", "ref.png">>)

(* Both files exist, the current one cannot be decoded. *)
C15_WitnessDecode ==
    /\ Called("compare_images")
    /\ call.scene.ref_exists
    /\ call.scene.cur_exists
    /\ call.scene.ref_shape # NoImage
    /\ call.scene.cur_shape = NoImage
    /\ call.value = ErrorResult(<<"Could not load one or both images">>)

(* C16: at every comparison entry point (compare_images and                *)
(* detect_visual_bugs), when the two decoded images differ in dimensions   *)
(* the current image is resized to the reference's dimensions, the         *)
(* reference keeps its own, and the result's image_dimensions hold the     *)
(* original width and height of both images.                               *)
DimensionsDiffer(scene) ==
    /\ scene.ref_shape # NoImage
    /\ scene.cur_shape # NoImage
    /\ scene.ref_shape # scene.cur_shape

OriginalDimensions(scene) ==
    [ reference |-> [width |-> scene.ref_shape[2], height |-> scene.ref_shape[1]],
      current |-> [width |-> scene.cur_shape[2], height |-> scene.cur_shape[1]] ]

C16_CurrentResizedToReference ==
    (pc = "called" /\ DimensionsDiffer(call.scene)) =>
        /\ call.working.reference = call.scene.ref_shape
        /\ call.working.current = call.scene.ref_shape
        /\ ~IsError(call.value) =>
              /\ "image_dimensions" \in DOMAIN call.value
              /\ call.value.image_dimensions = OriginalDimensions(call.scene)

(* The same statement for compare_images alone, which holds. *)
C16_CompareImagesResizesCurrent ==
    (Called("compare_images") /\ DimensionsDiffer(call.scene)) =>
        /\ call.working.reference = call.scene.ref_shape
        /\ call.working.current = call.scene.ref_shape
        /\ ~IsError(call.value) =>
              call.value.image_dimensions = OriginalDimensions(call.scene)

(* detect_visual_bugs on a 400x300 reference and an 800x600 current        *)
(* screenshot: the reference is the image resized.                         *)
C16_ReferenceResized ==
    /\ Called("detect_visual_bugs")
    /\ call.scene.ref_shape = Shape400x300
    /\ call.scene.cur_shape = <<600, 800>>
    /\ call.working.reference = <<600, 800>>
    /\ call.working.current = <<600, 800>>
    /\ ~IsError(call.value)
    /\ "image_dimensions" \notin DOMAIN call.value

(* C17: self.results is the sequence, in call order, of the results of     *)
(* every pair compared since construction, one entry per pair.  Stated for *)
(* the pairs a running or finished compare_batch has compared so far       *)
(* (image_pairs[1..pair_index]): they are the last pair_index entries of   *)
(* self.results, in the order of the batch.                                *)
C17_ResultsHoldEveryComparedPair ==
    pc \in {"batch", "returned", "batch_raised"} =>
        /\ Len(results) >= pair_index
        /\ \A i \in 1..pair_index :
              results[Len(results) - pair_index + i] =
                  CompareImagePairResult(config, image_pairs[i], save_diffs)

(* What holds of self.results: no step removes, reorders or replaces an    *)
(* entry, and a step adds at most one at the end.                          *)
C17_AppendOnly ==
    [][ /\ Len(results') \in {Len(results), Len(results) + 1}
        /\ SubSeq(results', 1, Len(results)) = results ]_vars

(* A report made without a results argument, or from the returned batch,   *)
(* holds the stored results it was made from.                              *)
C17_ReportOnStoredResults ==
    [][ pc' = "reported" => report'.results \in {results, batch_results} ]_vars

(* compare_batch left by the exception of its first pair's compare_image_pair: *)
(* the pair was compared and self.results has no entry for it.             *)
C17_ComparedPairNotStored ==
    /\ pc = "batch_raised"
    /\ pair_index = 1
    /\ results = <<>>

(* C18: every configuration value falls back to its default when the       *)
(* supplied configuration does not set it: compare_images on two valid     *)
(* images gives a non-error result, the one the configuration with its     *)
(* missing keys filled from the defaults gives.                            *)
ValidImages(scene) ==
    /\ scene.ref_exists
    /\ scene.cur_exists
    /\ scene.ref_shape # NoImage
    /\ scene.cur_shape # NoImage
    /\ ~SsimRaises(scene.ref_shape)

C18_MissingKeysFallBack ==
    (Called("compare_images") /\ ValidImages(call.scene)) =>
        /\ ~IsError(call.value)
        /\ call.value = ComparisonResult(ConstructMerged(config), call.scene, "test")

(* What holds: a configuration that sets every key the comparison reads,   *)
(* the default one included, gives a non-error result for valid images.    *)
C18_CompleteConfigCompares ==
    (Called("compare_images") /\ ValidImages(call.scene)
        /\ {"threshold", "min_contour_area", "severity_levels"} \subseteq DOMAIN config) =>
        ~IsError(call.value)

(* A detector built from {'output_dir': 'reports'} alone, two valid        *)
(* 400x300 images: the comparison ends in the KeyError's error result.     *)
C18_PartialConfigFails ==
    /\ Called("compare_images")
    /\ config = [output_dir |-> "reports"]
    /\ ValidImages(call.scene)
    /\ call.scene.contours # <<>>
    /\ call.value = ErrorResult(<<"Image comparison failed: ", "'min_contour_area'">>)

(* C19: a difference region is retained exactly when its area is strictly  *)
(* greater than min_contour_area; a region of exactly that area is         *)
(* discarded.  contours_count counts the retained regions, total_contours  *)
(* all raw ones, and the classifier and the visualization get the retained *)
(* regions only.                                                           *)
Retained(cfg, scene) ==
    SelectSeq(scene.contours, LAMBDA c : ~(c.area <= cfg.min_contour_area))

C19_RetainedStrictlyAboveMinArea ==
    (Called("compare_images") /\ ~IsError(call.value)) =>
        LET retained == Retained(config, call.scene)
        IN  /\ call.value.contours = retained
            /\ \A i \in 1..Len(call.value.contours) :
                  call.value.contours[i].area # config.min_contour_area
            /\ call.value.contours_count = Len(retained)
            /\ call.value.total_contours = Len(call.scene.contours)
            /\ call.value.difference_visualization.outlines = retained
            /\ call.value.bugs =
                  AnalyzeDifferences(config,
                      [ size |-> ImageSize(call.scene.ref_shape),
                        edge_nonzero |-> call.scene.edge_nonzero ],
                      retained, call.value.similarity)

(* Default configuration, raw regions of area 100 and 10001: only the      *)
(* second is retained, and it is the one the layout_shift finding names.   *)
C19_Witness ==
    /\ Called("compare_images")
    /\ config = DefaultConfig
    /\ ~IsError(call.value)
    /\ Len(call.scene.contours) = 2
    /\ call.scene.contours[1].area = 100
    /\ call.scene.contours[2].area = 10001
    /\ call.value.total_contours = 2
    /\ call.value.contours_count = 1
    /\ call.value.contours = <<call.scene.contours[2]>>
    /\ BugsOfType(call.value.bugs, "layout_shift") # <<>>

(* C20: the region sequence the rules work on is in non-increasing order   *)
(* of area, so the region the layout_shift rule tests has maximum area;    *)
(* it holds every region found, and the regions of one area are in their   *)
(* discovery order, so the reported location is that of the first found    *)
(* among the largest.                                                      *)
OfArea(regions, area) == SelectSeq(regions, LAMBDA r : r.area = area)

C20_SortedDescendingAndStable ==
    Called("diff_regions.sort") =>
        LET sorted == call.diff_regions
            found == Regions(call.contours)
        IN  /\ Len(sorted) = Len(found)
            /\ \A i \in 1..(Len(sorted) - 1) : sorted[i].area >= sorted[i + 1].area
            /\ \A i \in 1..Len(sorted) : sorted[1].area >= found[i].area
            /\ \A i \in 1..Len(found) :
                  OfArea(sorted, found[i].area) = OfArea(found, found[i].area)
            /\ \A i \in 1..Len(call.value) :
                  call.value[i].type = "layout_shift" =>
                      /\ call.value[i].area = sorted[1].area
                      /\ call.value[i].location = Region(FirstLargest(call.contours)).center

(* Four regions found as 150, 10001, 150, 10001 pixels, each at its own    *)
(* place: the two large ones come first and each pair keeps its discovery  *)
(* order; the layout_shift finding is located at the first large one.      *)
C20_Witness ==
    /\ Called("diff_regions.sort")
    /\ Len(call.contours) = 4
    /\ call.contours[1].area = 150
    /\ call.contours[2].area = 10001
    /\ call.contours[3].area = 150
    /\ call.contours[4].area = 10001
    /\ call.contours[1] # call.contours[3]
    /\ call.contours[2] # call.contours[4]
    /\ call.diff_regions = << Region(call.contours[2]), Region(call.contours[4]),
                              Region(call.contours[1]), Region(call.contours[3]) >>
    /\ \E i \in 1..Len(call.value) :
          /\ call.value[i].type = "layout_shift"
          /\ call.value[i].location = Region(call.contours[2]).center

(* C21: for a fixed pair of images the retained regions shrink as          *)
(* min_contour_area grows: for m1 <= m2 every region retained with m2 is   *)
(* retained with m1, so contours_count is non-increasing in                *)
(* min_contour_area.  The result's contours_count is the count for the     *)
(* configured value.                                                       *)
MinAreas == {0, 99, 100, 101, 102, 10001}

RetainedWith(min_area, scene) ==
    SignificantContours([min_contour_area |-> min_area], scene.contours)

C21_RetainedMonotoneInMinArea ==
    Called("compare_images") =>
        /\ \A m1 \in MinAreas, m2 \in MinAreas :
              m1 <= m2 =>
                  LET r1 == RetainedWith(m1, call.scene)
                      r2 == RetainedWith(m2, call.scene)
                  IN  /\ Len(r2) <= Len(r1)
                      /\ \A i \in 1..Len(r2) : \E j \in 1..Len(r1) : r1[j] = r2[i]
                      /\ r2 = SelectSeq(r1, LAMBDA c : c.area > m2)
        /\ ~IsError(call.value) =>
              call.value.contours_count
                  = Len(RetainedWith(config.min_contour_area, call.scene))

(* Raw regions of 101 and 102 pixels: two are retained with minimum area   *)
(* 100, one with 101 and none with 102; the comparison, configured with    *)
(* 101, counts one.                                                        *)
C21_Witness ==
    /\ Called("compare_images")
    /\ ~IsError(call.value)
    /\ config.min_contour_area = 101
    /\ Len(RetainedWith(100, call.scene)) = 2
    /\ Len(RetainedWith(101, call.scene)) = 1
    /\ Len(RetainedWith(102, call.scene)) = 0
    /\ call.value.contours_count = 1

(* C22: a comparison result whose overall severity is 'none' can hold a    *)
(* color_contrast_issue finding of severity 'low'.  A result of severity   *)
(* 'none' holds one exactly when its similarity is below the configured    *)
(* threshold and above 0.80 and one or two regions are retained, and the   *)
(* finding is of severity 'low'; the witness is such a result.             *)
C22_LowFindingUnderSeverityNone ==
    (Called("compare_images") /\ ~IsError(call.value) /\ call.value.severity = "none") =>
        /\ HasBug(call.value.bugs, "color_contrast_issue")
              <=> ( /\ call.value.similarity < config.threshold
                    /\ call.value.similarity > 80
                    /\ call.value.contours_count \in {1, 2} )
        /\ \A i \in 1..Len(call.value.bugs) :
              call.value.bugs[i].type = "color_contrast_issue" =>
                  call.value.bugs[i].severity = "low"

(* Threshold 0.99, default severity table, similarity 0.96, one retained   *)
(* region: severity 'none', bugs_found true, a 'low' color_contrast_issue. *)
C22_Witness ==
    /\ Called("compare_images")
    /\ ~IsError(call.value)
    /\ config.severity_levels = DefaultSeverityLevels
    /\ call.value.similarity >= 95
    /\ call.value.severity = "none"
    /\ call.value.contours_count = 1
    /\ call.value.bugs_found
    /\ \E i \in 1..Len(call.value.bugs) :
          /\ call.value.bugs[i].type = "color_contrast_issue"
          /\ call.value.bugs[i].severity = "low"

(* With the default threshold of 0.95 no result of severity 'none' under   *)
(* the default table has a finding.                                        *)
C22_NoneUnderDefaultThreshold ==
    (Called("compare_images") /\ ~IsError(call.value) /\ call.value.severity = "none"
        /\ config.threshold <= 95 /\ config.severity_levels = DefaultSeverityLevels) =>
        call.value.bugs = <<>>

(* C23: comparing an image with a bit-identical image gives similarity     *)
(* 1.0, difference percentage 0, no raw and no retained region, severity   *)
(* 'none', an empty bug list and bugs_found false.  Stated for the default *)
(* configuration.                                                          *)
IdenticalResult(value) ==
    /\ ~IsError(value)
    /\ value.similarity = 100
    /\ value.difference_percentage = 0
    /\ value.total_contours = 0
    /\ value.contours_count = 0
    /\ value.severity = "none"
    /\ value.bugs = <<>>
    /\ value.bugs_found = FALSE

C23_IdenticalImages ==
    (Called("compare_images") /\ call.scene \in IdenticalScenes /\ config = DefaultConfig) =>
        IdenticalResult(call.value)

(* What holds: the same for images of at least 7 pixels each way. *)
C23_IdenticalImagesOfWindowSize ==
    (Called("compare_images") /\ call.scene \in IdenticalScenes /\ config = DefaultConfig
        /\ ~SsimRaises(call.scene.ref_shape)) =>
        IdenticalResult(call.value)

(* A 5x5 image compared with a copy of itself: an error result. *)
C23_TinyIdenticalImagesFail ==
    /\ Called("compare_images")
    /\ call.scene \in IdenticalScenes
    /\ config = DefaultConfig
    /\ call.scene.ref_shape = <<5, 5>>
    /\ IsError(call.value)

(* C24: the demo's solid blue 400x300 reference compared with the solid    *)
(* red 400x300 current image gives a similarity below 0.70, overall        *)
(* severity 'critical', a layout_shift or multiple_differences finding and *)
(* bugs_found true, in every stored result of that pair.                   *)
BlueRedPair(result) ==
    /\ ~IsError(result)
    /\ result.reference_path = "blue.png"
    /\ result.current_path = "red.png"

C25_EveryEntryCarriesTestName ==
    pc = "returned" =>
        \A i \in 1..Len(batch_results) :
            /\ "test_name" \in DOMAIN batch_results[i]
            /\ batch_results[i].test_name = TestName(image_pairs[i].test_name)

(* What holds: the entries that are comparisons carry it. *)
C25_ComparisonsCarryTestName ==
    pc = "returned" =>
        \A i \in 1..Len(batch_results) :
            ~IsError(batch_results[i]) =>
                batch_results[i].test_name = TestName(image_pairs[i].test_name)

(* A returned batch whose first entry is the error result of the pair      *)
(* named missing_reference: it has the key 'error' and no other.           *)
C25_ErrorEntryWithoutTestName ==
    /\ pc = "returned"
    /\ Len(batch_results) >= 1
    /\ image_pairs[1].test_name = "missing_reference"
    /\ DOMAIN batch_results[1] = {"error"}

(* C26: every per-viewport result of run_comprehensive_test has            *)
(* bugs_found = (len(bugs) > 0), the results of a viewport without         *)
(* reference image and of a failed comparison included; so no bug report   *)
(* has total_bugs > 0 together with failed_tests = 0.                      *)
C26_BugsFoundIffBugsPerViewport ==
    /\ \A i \in 1..Len(test_results) :
          test_results[i].bugs_found = (Len(test_results[i].bugs) > 0)
    /\ pc = "bug_reported" =>
          ~(report_data.total_bugs > 0 /\ report_data.failed_tests = 0)

(* What holds: the results of the viewports that have a reference image. *)
C26_ComparedViewportsConsistent ==
    \A i \in 1..Len(test_results) :
        test_results[i].reference_screenshot # <<>> =>
            test_results[i].bugs_found = (Len(test_results[i].bugs) > 0)

(* A report over four viewports none of which has a reference image: four  *)
(* bugs and no failed test.                                                *)
C26_BugsWithoutFailedTest ==
    /\ pc = "bug_reported"
    /\ report_data.total_tests = 4
    /\ report_data.total_bugs = 4
    /\ report_data.failed_tests = 0
    /\ \A i \in 1..Len(test_results) :
          /\ test_results[i].bugs = MissingReferenceBugs
          /\ test_results[i].bugs_found = FALSE

(* C27: across setup_driver, test runs and cleanup every WebDriver object  *)
(* created is quit exactly once: quit() is never called twice on one       *)
(* object, and after cleanup both driver fields are None and every object  *)
(* created has been quit.                                                  *)
C27_EachDriverQuitOnce ==
    /\ \A d \in 1..Len(quits) : quits[d] <= 1
    /\ pc = "cleaned" =>
          /\ driver = NoDriver
          /\ detector_driver = NoDriver
          /\ \A d \in 1..Len(quits) : quits[d] = 1

(* What holds: after cleanup both fields are None. *)
C27_NoDriverHeldAfterCleanup ==
    pc = "cleaned" => (driver = NoDriver /\ detector_driver = NoDriver)

(* One driver set up, then cleanup: quit() was called on it twice. *)
C27_DriverQuitTwice ==
    /\ pc = "cleaned"
    /\ quits = <<2>>

(* C30: run_all_tests returns exactly five results, one per test function  *)
(* in the order initialization, difficulty selection, cell interaction,    *)
(* game controls, responsive design, whichever of them fail: a result that *)
(* stands for an exception has bugs_found true and a non-empty bug list,   *)
(* and the tests after it are still run.  While the loop runs it has one   *)
(* result per test function taken.                                         *)
ExceptionBugTypes == {"test_failure", "test_execution_error", "viewport_test_error"}

StandsForException(result) ==
    \/ "error" \in DOMAIN result
    \/ \E i \in 1..Len(result.bugs) : result.bugs[i].type \in ExceptionBugTypes

C30_FiveResultsInOrder ==
    /\ pc = "run_all_tests" => Len(test_results) = test_index
    /\ pc = "tests_returned" => Len(test_results) = 5
    /\ pc \in {"run_all_tests", "tests_returned"} =>
          \A i \in 1..Len(test_results) :
              /\ i <= Len(Tests)
              /\ test_results[i].test_name \in {Tests[i].test_name, Tests[i].func}
              /\ StandsForException(test_results[i]) =>
                    /\ test_results[i].bugs_found = TRUE
                    /\ Len(test_results[i].bugs) > 0

(* An exception left the first test function and one was raised inside the *)
(* second: five results all the same, the last three without a bug.        *)
C30_Witness ==
    /\ pc = "tests_returned"
    /\ Len(test_results) = 5
    /\ test_results[1].test_name = "test_game_initialization"
    /\ HasBug(test_results[1].bugs, "test_failure")
    /\ test_results[2].test_name = "difficulty_selection"
    /\ HasBug(test_results[2].bugs, "test_execution_error")
    /\ \A i \in 3..5 :
          /\ test_results[i].test_name = Tests[i].test_name
          /\ ~test_results[i].bugs_found

(* C28: the finding list of a comparison holds each bug type at most once, *)
(* so at most four findings, in the relative order layout_shift,           *)
(* multiple_differences, color_contrast_issue, text_rendering_issue, and   *)
(* never both multiple_differences and color_contrast_issue.               *)
BugTypeRank(type) ==
    CASE type = "layout_shift" -> 1
      [] type = "multiple_differences" -> 2
      [] type = "color_contrast_issue" -> 3
      [] type = "text_rendering_issue" -> 4
      [] OTHER -> 0

C28_FindingsOnceAndInOrder ==
    Called("_analyze_differences") =>
        /\ Len(call.value) <= 4
        /\ \A i \in 1..Len(call.value) : BugTypeRank(call.value[i].type) > 0
        /\ \A i \in 1..Len(call.value), j \in 1..Len(call.value) :
              i < j => BugTypeRank(call.value[i].type) < BugTypeRank(call.value[j].type)
        /\ ~( HasBug(call.value, "multiple_differences")
              /\ HasBug(call.value, "color_contrast_issue") )

(* Six regions, the largest over 10000 pixels, and diverging edges: three  *)
(* findings in the order layout_shift, multiple_differences,               *)
(* text_rendering_issue.                                                   *)
C28_Witness ==
    /\ Called("_analyze_differences")
    /\ Len(call.contours) = 6
    /\ Len(call.value) = 3
    /\ call.value[1].type = "layout_shift"
    /\ call.value[2].type = "multiple_differences"
    /\ call.value[3].type = "text_rendering_issue"

(* Two regions: layout_shift, color_contrast_issue, text_rendering_issue. *)
C28_WitnessColor ==
    /\ Called("_analyze_differences")
    /\ Len(call.contours) = 2
    /\ Len(call.value) = 3
    /\ call.value[1].type = "layout_shift"
    /\ call.value[2].type = "color_contrast_issue"
    /\ call.value[3].type = "text_rendering_issue"

(* C29: in the summary statistics passed tests + failed tests = total      *)
(* tests, failed tests is the number of results with bugs_found true, and  *)
(* a result that carries an error, having no bugs_found, counts as passed. *)
C29_PassedPlusFailed ==
    pc = "reported" =>
        LET rs == report.results
            summary == report.summary
            failing == {i \in 1..Len(rs) : ~IsError(rs[i]) /\ rs[i].bugs_found}
            erroneous == {i \in 1..Len(rs) : IsError(rs[i])}
            passing == {i \in 1..Len(rs) : ~IsError(rs[i]) /\ ~rs[i].bugs_found}
        IN  /\ summary.total_tests = Len(rs)
            /\ summary.passed_tests + summary.failed_tests = summary.total_tests
            /\ summary.failed_tests = Cardinality(failing)
            /\ summary.passed_tests = Cardinality(passing) + Cardinality(erroneous)
            /\ \A i \in erroneous : "bugs_found" \notin DOMAIN rs[i]

(* A report on an error result and a failed comparison: one passed test,   *)
(* one failed.                                                             *)
C29_Witness ==
    /\ pc = "reported"
    /\ Len(report.results) = 2
    /\ IsError(report.results[1])
    /\ ~IsError(report.results[2])
    /\ report.results[2].bugs_found
    /\ report.summary.passed_tests = 1
    /\ report.summary.failed_tests = 1
====
